---- MODULE Spec2Model ----
(***************************************************************************)
(* KesslerSimdrome frontend (src/main.js, first copy of the file, lines    *)
(* 1-992): the live NDJSON stream reader, the identity-keyed cache of live *)
(* entities, the capacity-bounded visibility filter and the live-mode      *)
(* button, as one state machine.                                           *)
(*                                                                         *)
(* Scheduling: the browser runs one task at a time.  A handler runs from   *)
(* its entry to its next await without interruption, so every action below *)
(* is one such run-to-completion stretch.                                  *)
(*                                                                         *)
(* Platform behaviour relied on (not in src/):                             *)
(*  - AbortController.abort() rejects a pending fetch() and errors the     *)
(*    response body stream, so a pending reader.read() rejects (WHATWG     *)
(*    Fetch, "abort a fetch() call");                                      *)
(*  - a Cesium Entity created without a `show` option has show = true;     *)
(*  - Cesium.Cartographic.fromCartesian returns undefined at the centre of *)
(*    the ellipsoid and a NaN height for a non-finite position;            *)
(*  - an <input type=range> clamps its value to [min, max].                *)
(***************************************************************************)
EXTENDS Integers, Sequences, FiniteSets, TLC

\* ------------------------------------------------------------------ bounds
\* Live sessions the user may start in one run.
MaxSessions == 2
\* Tokens a session's carry-over buffer may hold between reads (the
\* transport then delivers the rest of the record).
MaxBuf == 1
\* Tokens fed to the session in the byte-level stream specification.
MaxFed == 6
\* Live sessions of the filter specification.
MaxFilterSessions == 1

\* --------------------------------------------------------- program constants
\* Cesium.Ellipsoid.WGS84.maximumRadius, in metres (rounded to the metre).
EarthRadiusM == 6378137
\* The slider's initial max and value, and the initial maxVisibleObjects.
SliderDefault == 14128
\* The largest value the typed-value prompt accepts.
PromptMax == 14128

Sessions == 1..MaxSessions

Min(a, b) == IF a < b THEN a ELSE b
Abs(a) == IF a < 0 THEN -a ELSE a

\* ------------------------------------------------------------- JS numbers
\* A JS number is finite (fin, value v) or not (NaN / Infinity).
Num(v) == [fin |-> TRUE, v |-> v]
NaN == [fin |-> FALSE, v |-> 0]
\* Number.isFinite
IsFinite(h) == h.fin
\* (h / 1000) < k for a height h in metres: false when h is NaN.
KmLt(h, k) == h.fin /\ h.v < k * 1000

AltBins == {"0-200", "200-400", "400-800", "800-1200", "1200-2000", "2000+"}

altitudeToBin(h) ==
  IF KmLt(h, 200) THEN "0-200"
  ELSE IF KmLt(h, 400) THEN "200-400"
  ELSE IF KmLt(h, 800) THEN "400-800"
  ELSE IF KmLt(h, 1200) THEN "800-1200"
  ELSE IF KmLt(h, 2000) THEN "1200-2000"
  ELSE "2000+"

altitudeToColorMeters(h) ==
  IF KmLt(h, 200) THEN "DEEPSKYBLUE"
  ELSE IF KmLt(h, 400) THEN "LIME"
  ELSE IF KmLt(h, 800) THEN "YELLOW"
  ELSE IF KmLt(h, 1200) THEN "ORANGE"
  ELSE IF KmLt(h, 2000) THEN "RED"
  ELSE "MAGENTA"

\* Raw type strings whose upper case contains PAYLOAD or ACTIVE.
ActiveLike == {"PAYLOAD", "Active", "ACTIVE"}

\* "" stands for a missing (falsy) raw value.
normalizeTypeForDev(raw) ==
  IF raw = "" THEN "Active"
  ELSE IF raw \in ActiveLike THEN "Active"
  ELSE "Junk"

KnownCountries ==
  {"United States", "United Kingdom", "France", "Japan", "Italy", "Soviet Union"}

normalizeCountryForDev(raw) ==
  IF raw = "" THEN "Other"
  ELSE IF raw \in KnownCountries THEN raw
  ELSE "Other"

\* ------------------------------------------------------------ coordinates
\* A position sample posKm = [x, 0, 0] km on the equatorial x axis, or a
\* sample with a non-finite component (fin = FALSE), e.g. the JSON 1e999.
Pos(x) == [fin |-> TRUE, x |-> x]
PosNonFinite == [fin |-> FALSE, x |-> 0]

\* Mutant: the kilometres are not converted to metres.
ToCartesianKm(posKm) == [fin |-> posKm.fin, x |-> posKm.x]

\* new Cesium.Cartesian3(posKm[0] * 1000, ...)
ToCartesian(posKm) == [fin |-> posKm.fin, x |-> posKm.x * 1000]

\* Cesium.Cartographic.fromCartesian: undefined at the centre; on the
\* equatorial axis the geodetic height is the distance minus the radius.
FromCartesian(cart) ==
  IF ~cart.fin THEN [defined |-> TRUE, height |-> NaN]
  ELSE IF cart.x = 0 THEN [defined |-> FALSE, height |-> NaN]
  ELSE [defined |-> TRUE, height |-> Num(Abs(cart.x) - EarthRadiusM)]

\* Cesium.Cartesian3.magnitude
Magnitude(cart) == IF cart.fin THEN Num(Abs(cart.x)) ELSE NaN

\* Mutant: no fallback when fromCartesian yields nothing.
CartographicNoFallback(cart) == FromCartesian(cart)

\* let carto = fromCartesian(cart); if (!carto) { ... magnitude - earthR ... }
CartographicOf(cart) ==
  LET carto == FromCartesian(cart)
      r == Magnitude(cart)
      fallback == IF r.fin THEN Num(r.v - EarthRadiusM) ELSE NaN
  IN IF carto.defined THEN carto
     ELSE [defined |-> TRUE, height |-> fallback]

kmEciToCartographicMeters(posKm) ==
  LET cart == ToCartesian(posKm)
  IN [cart |-> cart, carto |-> CartographicOf(cart)]

\* ------------------------------------------------------------- wire format
\* The stream is a sequence of tokens, each an indivisible run of bytes:
\*   nl  "\n"            sp  " "             lb  "{"            rb  "}"
\*   st  "status":"simulation_started"}     nul  null
\*   ob  "objects":[...],"object_count":n}  (f: which frame of FrameTable)
Tok(t) == [t |-> t, f |-> 0]
Ob(f) == [t |-> "ob", f |-> f]
\* sto  "status":"running","objects":[...],"object_count":n}
StOb(f) == [t |-> "sto", f |-> f]
NL == Tok("nl")
SP == Tok("sp")
LB == Tok("lb")
RB == Tok("rb")
ST == Tok("st")
NUL == Tok("nul")

\* One element of msg.objects: the pair [[x,y,z],[vx,vy,vz]].  wf = FALSE is
\* an element that is no pair (null, or a pair without a position).
Pair(pos, vel) == [wf |-> TRUE, pos |-> pos, vel |-> vel]
\* The element null: reading pair[0] of it throws a TypeError.
NoPair == [wf |-> FALSE, pos |-> PosNonFinite, vel |-> 0]

\* The frames the backend sends in this model.
FrameTable ==
  << [objects |-> <<Pair(Pos(7000), 7)>>, object_count |-> 1],
     [objects |-> <<Pair(Pos(6500), 3), Pair(Pos(0), 0)>>, object_count |-> 2],
     [objects |-> <<Pair(PosNonFinite, 1)>>, object_count |-> 1],
     [objects |-> <<Pair(Pos(7000), 5), NoPair>>, object_count |-> 2] >>

FrameIds == 1..Len(FrameTable)

\* String.prototype.indexOf("\n"), 1-based; 0 when there is none.
IndexOfNl(buffer) ==
  IF \E i \in 1..Len(buffer) : buffer[i] = NL
  THEN CHOOSE i \in 1..Len(buffer) :
         buffer[i] = NL /\ \A j \in 1..(i - 1) : buffer[j] # NL
  ELSE 0

\* String.prototype.trim
Trim(line) ==
  LET keep == {i \in 1..Len(line) : line[i] # SP}
  IN IF keep = {} THEN <<>>
     ELSE LET lo == CHOOSE i \in keep : \A j \in keep : i <= j
              hi == CHOOSE i \in keep : \A j \in keep : j <= i
          IN SubSeq(line, lo, hi)

NotSpace(c) == c # SP

\* JSON.parse of a line.  ok = FALSE is a SyntaxError.  White space between
\* tokens is insignificant.
JSONParse(line) ==
  LET body == SelectSeq(line, NotSpace)
      bad == [ok |-> FALSE, isNull |-> FALSE, status |-> FALSE,
              objectsIsArray |-> FALSE, f |-> 0]
  IN IF body = <<NUL>> THEN [bad EXCEPT !.ok = TRUE, !.isNull = TRUE]
     ELSE IF body = <<LB, RB>> THEN [bad EXCEPT !.ok = TRUE]
     ELSE IF body = <<LB, ST>> THEN [bad EXCEPT !.ok = TRUE, !.status = TRUE]
     ELSE IF Len(body) = 2 /\ body[1] = LB /\ body[2].t = "ob"
       THEN [bad EXCEPT !.ok = TRUE, !.objectsIsArray = TRUE, !.f = body[2].f]
     ELSE IF Len(body) = 2 /\ body[1] = LB /\ body[2].t = "sto"
       THEN [bad EXCEPT !.ok = TRUE, !.status = TRUE, !.objectsIsArray = TRUE,
                        !.f = body[2].f]
     ELSE bad

\* ---------------------------------------------------------------- entities
\* A Cesium entity with its PropertyBag.  writer is history: the session
\* whose read loop last wrote the entity (0 for a historical entity).
Entity(id, type, country, altBin, color, cart, vel, show, writer) ==
  [id |-> id, type |-> type, country |-> country, altBin |-> altBin,
   color |-> color, cart |-> cart, vel |-> vel, show |-> show,
   writer |-> writer]

\* Index of the entity with this id in a collection (0 when absent).
IndexOfId(ents, id) ==
  IF \E i \in 1..Len(ents) : ents[i].id = id
  THEN CHOOSE i \in 1..Len(ents) : ents[i].id = id
  ELSE 0

\* The altitude the create path bins and colours: `height`.
CreateHeight(carto) == IF IsFinite(carto.height) THEN carto.height ELSE Num(0)
\* The altitude the update path bins and colours: `carto.height`.
UpdateHeight(carto) == carto.height

\* Mutant: the created object is given the kind Active.
CreateDotActive(s, id, r, velKmps) ==
  Entity(id, normalizeTypeForDev("Active"), normalizeCountryForDev("Other"),
         altitudeToBin(CreateHeight(r.carto)),
         altitudeToColorMeters(CreateHeight(r.carto)),
         r.cart, velKmps, TRUE, s)

\* kesslerDS.entities.add({...}) of the create path; r is the result of
\* kmEciToCartographicMeters.
CreateDot(s, id, r, velKmps) ==
  Entity(id, normalizeTypeForDev("Junk"), normalizeCountryForDev("Other"),
         altitudeToBin(CreateHeight(r.carto)),
         altitudeToColorMeters(CreateHeight(r.carto)),
         r.cart, velKmps, TRUE, s)

\* Mutant: the update path also sets show, as a fresh entity would have it.
UpdateDotShown(e, s, r) ==
  [e EXCEPT !.cart = r.cart,
            !.altBin = altitudeToBin(UpdateHeight(r.carto)),
            !.color = altitudeToColorMeters(UpdateHeight(r.carto)),
            !.show = TRUE,
            !.writer = s]

\* The assignments of the update path to the existing entity e.
UpdateDot(e, s, r) ==
  [e EXCEPT !.cart = r.cart,
            !.altBin = altitudeToBin(UpdateHeight(r.carto)),
            !.color = altitudeToColorMeters(UpdateHeight(r.carto)),
            !.writer = s]

\* upsertLiveDotFromBackend(id, posKm, velKmps) on live = (kesslerDS
\* entities, LIVE_ENTITY_BY_ID keys), called by session s.
upsertLiveDotFromBackend(live, s, id, posKm, velKmps) ==
  IF id \notin live.ids
  THEN [ents |-> Append(live.ents,
                        CreateDot(s, id, kmEciToCartographicMeters(posKm), velKmps)),
        ids |-> live.ids \cup {id}]
  ELSE [ents |-> [live.ents EXCEPT ![IndexOfId(live.ents, id)] =
                    UpdateDot(@, s, kmEciToCartographicMeters(posKm))],
        ids |-> live.ids]

\* ------------------------------------------------------------------ filter
TypeCodes == {"PAY", "R/B"}
CountryCodes == {"US", "BRAZ", "GER", "UK", "FR", "JPN", "IT", "CIS", "PRC", "Other"}

TYPE_CODE_MAP(c) == IF c = "PAY" THEN "Active" ELSE "Junk"

COUNTRY_CODE_MAP(c) ==
  CASE c = "US" -> "United States"
    [] c = "UK" -> "United Kingdom"
    [] c = "FR" -> "France"
    [] c = "GER" -> "Germany"
    [] c = "JPN" -> "Japan"
    [] c = "IT" -> "Italy"
    [] c = "BRAZ" -> "Brazil"
    [] c = "CIS" -> "Soviet Union"
    [] c = "PRC" -> "China"
    [] OTHER -> "Other"

ActiveTypes(rawTypes) == {TYPE_CODE_MAP(t) : t \in rawTypes}
ActiveCountries(rawCountries) == {COUNTRY_CODE_MAP(c) : c \in rawCountries}

\* Mutant: the three tests joined by || instead of &&.
PassesAnyFilter(props, activeTypes, activeCountries, bins) ==
  \/ props.type \in activeTypes
  \/ props.country \in activeCountries
  \/ props.altBin \in bins

\* passesFilters
PassesFilters(props, activeTypes, activeCountries, bins) ==
  /\ props.type \in activeTypes
  /\ props.country \in activeCountries
  /\ props.altBin \in bins

\* Mutant: shownCount <= maxVisibleObjects.
AtOrBelowLimit(shownCount, limit) == shownCount <= limit

\* Mutant: the comparison reversed.
AboveLimit(shownCount, limit) == shownCount >= limit

\* shownCount < maxVisibleObjects
BelowLimit(shownCount, limit) == shownCount < limit

\* entities.filter(e => e.properties && e.show).length
CountShown(ents) == Cardinality({i \in 1..Len(ents) : ents[i].show})

\* Mutant: shownCount is not reset, it carries the count of the last run.
StaleShownCount(ents) == CountShown(ents)

\* let shownCount = 0
InitialShownCount(ents) == 0

\* Mutant: an object that is not shown is recoloured as well as hidden.
FilterEntitiesRecolouring(ents, activeTypes, activeCountries, bins, limit) ==
  LET pass(i) == PassesFilters(ents[i], activeTypes, activeCountries, bins)
      shown[i \in 0..Len(ents)] ==
        IF i = 0 THEN 0
        ELSE shown[i - 1]
             + (IF pass(i) /\ BelowLimit(shown[i - 1], limit) THEN 1 ELSE 0)
  IN [i \in 1..Len(ents) |->
        [ents[i] EXCEPT !.show = pass(i) /\ BelowLimit(shown[i - 1], limit),
                        !.color = IF pass(i) /\ BelowLimit(shown[i - 1], limit)
                                  THEN @ ELSE "GRAY"]]

\* The loop of applyFilters over one collection: shown[i] is shownCount
\* after the first i entities.
FilterEntities(ents, activeTypes, activeCountries, bins, limit) ==
  LET pass(i) == PassesFilters(ents[i], activeTypes, activeCountries, bins)
      shown[i \in 0..Len(ents)] ==
        IF i = 0 THEN InitialShownCount(ents)
        ELSE shown[i - 1]
             + (IF pass(i) /\ BelowLimit(shown[i - 1], limit) THEN 1 ELSE 0)
  IN [i \in 1..Len(ents) |->
        [ents[i] EXCEPT !.show = pass(i) /\ BelowLimit(shown[i - 1], limit)]]

\* ------------------------------------------------------------------- state
VARIABLES
  MODE,               \* "NORMAL" | "KESSLER"
  KESSLER_ABORT,      \* 0 (null) or the session whose AbortController it is
  aborted,            \* sessions whose AbortController has been aborted
  session,            \* per call of startKesslerStreamFromAPI: pc, buffer
  nStarted,           \* calls of startKesslerStreamFromAPI so far
  toggleFailed,       \* per session: console.error("Kessler toggle failed")
  kesslerEntities,    \* kesslerDS.entities.values, in insertion order
  LIVE_ENTITY_BY_ID,  \* the keys of the id index
  normalEntities,     \* normalDS.entities.values
  normalShow,         \* normalDS.show
  kesslerShow,        \* kesslerDS.show
  timeUIShown,        \* timeline and animation widgets displayed
  infoBoxShown,       \* infoBox.style.display = "block"
  btnActive,          \* ksdButton has class "active"
  loadPc,             \* window load handler: "loading" (awaiting) | "done"
  checkedTypes,       \* checked .f-type boxes (codes)
  checkedCountries,   \* checked .f-country boxes (codes)
  activeAltBins,      \* the activeAltBins set
  maxVisibleObjects,
  sliderValue,        \* slider.value
  sliderMax,          \* slider.max
  counterVisible,     \* text of #ksd-visible
  counterTotal,       \* text of #ksd-total
  filtered,           \* history: the last handler ended with applyFilters
  partial,            \* history: the for loop of the last frame threw
  fed,                \* history: tokens delivered to the traced session
  handed              \* history: lines handed to JSON.parse, with outcome

vars ==
  <<MODE, KESSLER_ABORT, aborted, session, nStarted, toggleFailed,
    kesslerEntities, LIVE_ENTITY_BY_ID, normalEntities, normalShow,
    kesslerShow, timeUIShown, infoBoxShown, btnActive, loadPc, checkedTypes,
    checkedCountries, activeAltBins, maxVisibleObjects, sliderValue,
    sliderMax, counterVisible, counterTotal, filtered, partial, fed, handed>>

sessionVars == <<KESSLER_ABORT, aborted, session, nStarted, toggleFailed>>
displayVars == <<normalShow, kesslerShow, timeUIShown, infoBoxShown, btnActive>>
criteriaVars == <<checkedTypes, checkedCountries, activeAltBins>>
traceVars == <<fed, handed>>

\* The part of the page the read loop and applyFilters write.
Doc ==
  [k |-> kesslerEntities, ids |-> LIVE_ENTITY_BY_ID, n |-> normalEntities,
   sliderMax |-> sliderMax, sliderValue |-> sliderValue,
   cVis |-> counterVisible, cTot |-> counterTotal, filtered |-> filtered,
   partial |-> partial]

SetDoc(d) ==
  /\ kesslerEntities' = d.k
  /\ LIVE_ENTITY_BY_ID' = d.ids
  /\ normalEntities' = d.n
  /\ sliderMax' = d.sliderMax
  /\ sliderValue' = d.sliderValue
  /\ counterVisible' = d.cVis
  /\ counterTotal' = d.cTot
  /\ filtered' = d.filtered
  /\ partial' = d.partial

\* What applyFilters reads besides the collections.
Crit(mode, types, countries, bins, limit) ==
  [mode |-> mode, types |-> types, countries |-> countries, bins |-> bins,
   limit |-> limit]

CurrentCrit ==
  Crit(MODE, checkedTypes, checkedCountries, activeAltBins, maxVisibleObjects)

\* updateCounter
updateCounter(d, mode) ==
  [d EXCEPT !.cVis = CountShown(IF mode = "KESSLER" THEN d.k ELSE d.n),
            !.cTot = d.sliderMax]

\* applyFilters
applyFilters(d, c) ==
  LET types == ActiveTypes(c.types)
      countries == ActiveCountries(c.countries)
      d1 == IF c.mode = "KESSLER"
            THEN [d EXCEPT !.k = FilterEntities(d.k, types, countries, c.bins, c.limit)]
            ELSE [d EXCEPT !.n = FilterEntities(d.n, types, countries, c.bins, c.limit)]
  IN [updateCounter(d1, c.mode) EXCEPT !.filtered = TRUE]

\* Mutant: nothing is removed.
ClearNothing(d) == d

\* Mutant: the collection is emptied, the id index is not.
ClearEntitiesOnly(d) == [d EXCEPT !.k = <<>>]

\* clearKesslerObjectsOnly
clearKesslerObjectsOnly(d) == [d EXCEPT !.k = <<>>, !.ids = {}]

\* ---------------------------------------------------------------- read loop
\* The for loop over msg.objects from element i on; threw = a TypeError
\* (pair[0] of a non-pair, or posKm[0] of a missing position).
RECURSIVE UpsertFrom(_, _, _, _)
UpsertFrom(live, s, objects, i) ==
  IF i > Len(objects) THEN [live |-> live, threw |-> FALSE]
  ELSE IF ~objects[i].wf THEN [live |-> live, threw |-> TRUE]
  ELSE UpsertFrom(upsertLiveDotFromBackend(live, s, i - 1,
                                           objects[i].pos, objects[i].vel),
                  s, objects, i + 1)

\* slider.max = msg.object_count (the range input clamps its value)
SetSliderMax(d, count) ==
  [d EXCEPT !.sliderMax = count, !.sliderValue = Min(d.sliderValue, count)]

\* The page after the for loop ended with u.
AfterUpserts(d, u) ==
  [d EXCEPT !.k = u.live.ents, !.ids = u.live.ids, !.filtered = FALSE,
            !.partial = u.threw]

\* Mutant: a frame whose loop threw is rolled back by emptying the cache.
FrameOutcomeClearing(d, c, threw) ==
  IF threw THEN [d |-> [d EXCEPT !.k = <<>>, !.ids = {}], outcome |-> "threw"]
  ELSE [d |-> applyFilters(d, c), outcome |-> "frame"]

\* The end of the frame branch: applyFilters() unless the for loop threw.
FrameOutcome(d, c, threw) ==
  IF threw THEN [d |-> d, outcome |-> "threw"]
  ELSE [d |-> applyFilters(d, c), outcome |-> "frame"]

\* if (Array.isArray(msg.objects)) { ... }
ProcessFrame(d, c, u) == FrameOutcome(AfterUpserts(d, u), c, u.threw)

\* Mutant: a status message resets the cache.
ProcessMsgStatusResets(d, c, s, msg) ==
  IF msg.isNull THEN [d |-> d, outcome |-> "threw"]
  ELSE IF msg.status
    THEN [d |-> [d EXCEPT !.k = <<>>, !.ids = {}], outcome |-> "status"]
  ELSE IF msg.objectsIsArray
    THEN ProcessFrame(SetSliderMax(d, FrameTable[msg.f].object_count), c,
                      UpsertFrom([ents |-> d.k, ids |-> d.ids], s,
                                 FrameTable[msg.f].objects, 1))
  ELSE [d |-> d, outcome |-> "ignored"]

\* The body of the inner while loop after JSON.parse succeeded.
\* outcome: "status", "frame", "ignored", or "threw" (an exception leaves
\* the loop and the function: msg.status of null, or a failed upsert).
ProcessMsg(d, c, s, msg) ==
  IF msg.isNull THEN [d |-> d, outcome |-> "threw"]
  ELSE IF msg.status THEN [d |-> d, outcome |-> "status"]
  ELSE IF msg.objectsIsArray
    THEN ProcessFrame(SetSliderMax(d, FrameTable[msg.f].object_count), c,
                      UpsertFrom([ents |-> d.k, ids |-> d.ids], s,
                                 FrameTable[msg.f].objects, 1))
  ELSE [d |-> d, outcome |-> "ignored"]

\* Mutant: no try/catch around JSON.parse, the SyntaxError propagates.
ProcessLineNoCatch(d, c, s, line) ==
  LET msg == JSONParse(line)
  IN IF ~msg.ok THEN [d |-> d, outcome |-> "threw"]
     ELSE ProcessMsg(d, c, s, msg)

\* The body of the inner while loop for one non-empty line: outcome "bad"
\* is the SyntaxError caught, warned about and skipped with `continue`.
ProcessLine(d, c, s, line) ==
  LET msg == JSONParse(line)
  IN IF ~msg.ok THEN [d |-> d, outcome |-> "bad"]
     ELSE ProcessMsg(d, c, s, msg)

\* The line extracted at the first "\n" of the buffer.
LineAt(buffer, idx) == Trim(SubSeq(buffer, 1, idx - 1))
\* buffer.slice(idx + 1)
RestAfter(buffer, idx) == SubSeq(buffer, idx + 1, Len(buffer))

\* The loop state after the line was processed with result r; the log entry
\* records the line, its outcome and whether the cache was touched.
AfterLine(st, rest, line, r) ==
  [buffer |-> rest, d |-> r.d,
   log |-> Append(st.log,
                  [line |-> line, outcome |-> r.outcome,
                   touched |-> r.d.k # st.d.k \/ r.d.ids # st.d.ids]),
   threw |-> r.outcome = "threw"]

\* Mutant: no `if (!line) continue`, the empty line is processed too.
LineStepNoSkip(st, c, s, line, rest) ==
  AfterLine(st, rest, line, ProcessLine(st.d, c, s, line))

\* One pass of the inner while loop: slice and trim the line, skip it when
\* empty, process it otherwise.
LineStep(st, c, s, line, rest) ==
  IF line = <<>> THEN [st EXCEPT !.buffer = rest]
  ELSE AfterLine(st, rest, line, ProcessLine(st.d, c, s, line))

\* while ((idx = buffer.indexOf("\n")) >= 0) { ... } on the loop state
\* st = (buffer, page, log, threw); an exception leaves the loop.
RECURSIVE SplitLoop(_, _, _)
SplitLoop(st, c, s) ==
  IF st.threw \/ IndexOfNl(st.buffer) = 0 THEN st
  ELSE SplitLoop(LineStep(st, c, s, LineAt(st.buffer, IndexOfNl(st.buffer)),
                          RestAfter(st.buffer, IndexOfNl(st.buffer))),
                 c, s)

\* ------------------------------------------------------------------ inputs
\* Chunks of the record-level specification: whole records, and a frame
\* record split after its opening brace.
LineChunks ==
  {<<LB, Ob(f), NL>> : f \in FrameIds}
    \cup {<<LB>>, <<Ob(1), NL>>}
    \cup {<<LB, ST, NL>>, <<ST, NL>>, <<NUL, NL>>, <<LB, RB, NL>>}
    \cup {<<LB, StOb(1), NL>>}

\* Chunks of the byte-level specification: every sequence of n tokens.
Alphabet == {NL, SP, LB, RB, ST, NUL, Ob(1)}
TokenChunks(n) == [1..n -> Alphabet]

\* The check boxes the user toggles in this model (the others stay checked).
ToggleTypes == {"R/B"}
ToggleCountries == {"Other"}
ToggleBins == {"400-800"}
\* The check boxes the user toggles in the filter specification.
FilterTypes == {"PAY", "R/B"}
FilterCountries == {"US", "Other"}
FilterBins == {"0-200", "400-800"}
\* The positions the user drags the slider to.
SliderStops == {0, 1, SliderDefault}
\* The positions of the slider in the filter specification.
FilterStops == SliderStops \cup {10}

\* data.trajectories of the historical API: type_field, country and the
\* altitude (m) of the first sample.
Trajectories ==
  << [id |-> 25544, type_field |-> "PAYLOAD", country |-> "United States", alt |-> 420000],
     [id |-> 101, type_field |-> "DEBRIS", country |-> "China", alt |-> 780000],
     [id |-> 102, type_field |-> "", country |-> "", alt |-> 150000] >>

\* -------------------------------------------------------------------- Init
Init ==
  /\ MODE = "NORMAL"
  /\ KESSLER_ABORT = 0
  /\ aborted = {}
  /\ session = [s \in Sessions |-> [pc |-> "idle", buffer |-> <<>>]]
  /\ nStarted = 0
  /\ toggleFailed = [s \in Sessions |-> 0]
  /\ kesslerEntities = <<>>
  /\ LIVE_ENTITY_BY_ID = {}
  /\ normalEntities = <<>>
  /\ normalShow = TRUE
  /\ kesslerShow = FALSE
  /\ timeUIShown = TRUE
  /\ infoBoxShown = FALSE
  /\ btnActive = FALSE
  /\ loadPc = "loading"
  /\ checkedTypes = TypeCodes
  /\ checkedCountries = CountryCodes
  /\ activeAltBins = AltBins
  /\ maxVisibleObjects = SliderDefault
  /\ sliderValue = SliderDefault
  /\ sliderMax = SliderDefault
  /\ counterVisible = 0
  /\ counterTotal = 0
  /\ filtered = FALSE
  /\ partial = FALSE
  /\ fed = <<>>
  /\ handed = <<>>

\* ----------------------------------------------------------------- session
\* A call's locals: the buffer dies with the call.
Settle(pc, buffer) ==
  [pc |-> pc, buffer |-> IF pc \in {"fetch", "read"} THEN buffer ELSE <<>>]

\* Mutant: the signal is not passed to fetch, abort() cancels nothing.
PcAbortIgnored(pc) == pc

\* Mutant: the signal reaches fetch only, a pending read is not cancelled.
PcAbortFetchOnly(pc) == IF pc = "fetch" THEN "aborted" ELSE pc

\* What controller.abort() does to the call awaiting on its signal: a
\* pending fetch() or reader.read() rejects with an AbortError.
PcAfterAbort(pc) == IF pc \in {"fetch", "read"} THEN "aborted" ELSE pc

\* Mutant: abort() is never called.
AbortSkipped(next) ==
  /\ aborted' = aborted
  /\ session' = next
  /\ toggleFailed' = toggleFailed

\* if (KESSLER_ABORT) KESSLER_ABORT.abort(), and the rejection it causes,
\* which the click handler's catch logs.
AbortCurrent(next) ==
  LET a == KESSLER_ABORT
  IN IF a = 0
     THEN /\ aborted' = aborted
          /\ session' = next
          /\ toggleFailed' = toggleFailed
     ELSE /\ aborted' = aborted \cup {a}
          /\ session' = [next EXCEPT ![a] = Settle(PcAfterAbort(@.pc), @.buffer)]
          /\ toggleFailed' =
               [toggleFailed EXCEPT ![a] =
                  IF PcAfterAbort(session[a].pc) # session[a].pc THEN @ + 1 ELSE @]

\* startKesslerStreamFromAPI up to its first await (the fetch), as call s.
startKesslerStreamFromAPI(s) ==
  /\ AbortCurrent([session EXCEPT ![s] = [pc |-> "fetch", buffer |-> <<>>]])
  /\ MODE' = "KESSLER"
  /\ normalShow' = FALSE
  /\ kesslerShow' = TRUE
  /\ timeUIShown' = FALSE
  /\ SetDoc([clearKesslerObjectsOnly(Doc) EXCEPT !.filtered = FALSE,
                                                 !.partial = FALSE])
  /\ infoBoxShown' = TRUE
  /\ KESSLER_ABORT' = s
  /\ nStarted' = s
  /\ fed' = <<>>
  /\ handed' = <<>>
  /\ UNCHANGED <<loadPc, criteriaVars, maxVisibleObjects>>

\* Mutant: the simulation info box is not hidden on the way back.
returnKeepingInfoBox ==
  IF MODE = "NORMAL" THEN UNCHANGED <<vars>>
  ELSE /\ AbortCurrent(session)
       /\ KESSLER_ABORT' = 0
       /\ MODE' = "NORMAL"
       /\ kesslerShow' = FALSE
       /\ normalShow' = TRUE
       /\ timeUIShown' = TRUE
       /\ infoBoxShown' = infoBoxShown
       /\ SetDoc(applyFilters([clearKesslerObjectsOnly(Doc) EXCEPT !.partial = FALSE],
                              Crit("NORMAL", checkedTypes, checkedCountries,
                                   activeAltBins, maxVisibleObjects)))
       /\ UNCHANGED <<nStarted, loadPc, criteriaVars, maxVisibleObjects, traceVars>>

\* returnToNormalMode
returnToNormalMode ==
  IF MODE = "NORMAL" THEN UNCHANGED <<vars>>
  ELSE /\ AbortCurrent(session)
       /\ KESSLER_ABORT' = 0
       /\ MODE' = "NORMAL"
       /\ kesslerShow' = FALSE
       /\ normalShow' = TRUE
       /\ timeUIShown' = TRUE
       /\ infoBoxShown' = FALSE
       /\ SetDoc(applyFilters([clearKesslerObjectsOnly(Doc) EXCEPT !.partial = FALSE],
                              Crit("NORMAL", checkedTypes, checkedCountries,
                                   activeAltBins, maxVisibleObjects)))
       /\ UNCHANGED <<nStarted, loadPc, criteriaVars, maxVisibleObjects, traceVars>>

\* Mutant: the click that enters live mode does not mark the button.
ClickEnterUnmarked ==
  /\ MODE = "NORMAL"
  /\ btnActive' = btnActive
  /\ startKesslerStreamFromAPI(nStarted + 1)

\* ksdButton click while MODE is NORMAL.
ClickEnter ==
  /\ MODE = "NORMAL"
  /\ btnActive' = TRUE
  /\ startKesslerStreamFromAPI(nStarted + 1)

\* ksdButton click while MODE is KESSLER.
ClickExit ==
  /\ MODE # "NORMAL"
  /\ returnToNormalMode
  /\ btnActive' = FALSE

\* The fetch resolves with res.ok and a body.
FetchOk(s) ==
  /\ session[s].pc = "fetch"
  /\ session' = [session EXCEPT ![s].pc = "read", ![s].buffer = <<>>]
  /\ UNCHANGED <<MODE, KESSLER_ABORT, aborted, nStarted, toggleFailed, displayVars,
                 loadPc, criteriaVars, maxVisibleObjects, traceVars,
                 kesslerEntities, LIVE_ENTITY_BY_ID, normalEntities, sliderValue,
                 sliderMax, counterVisible, counterTotal, filtered, partial>>

\* The fetch resolves with !res.ok or without a body: throw new Error(...),
\* caught and logged by the click handler.
FetchFail(s) ==
  /\ session[s].pc = "fetch"
  /\ session' = [session EXCEPT ![s] = Settle("failed", @.buffer)]
  /\ toggleFailed' = [toggleFailed EXCEPT ![s] = @ + 1]
  /\ UNCHANGED <<MODE, KESSLER_ABORT, aborted, nStarted, displayVars,
                 loadPc, criteriaVars, maxVisibleObjects, traceVars,
                 kesslerEntities, LIVE_ENTITY_BY_ID, normalEntities, sliderValue,
                 sliderMax, counterVisible, counterTotal, filtered, partial>>

\* The state the read loop leaves when the pass over the chunk ended with r.
AfterChunk(s, chunk, trace, r) ==
  /\ session' = [session EXCEPT
                   ![s] = Settle(IF r.threw THEN "crashed" ELSE "read", r.buffer)]
  /\ toggleFailed' = [toggleFailed EXCEPT ![s] = IF r.threw THEN @ + 1 ELSE @]
  /\ SetDoc(r.d)
  /\ fed' = IF trace THEN fed \o chunk ELSE fed
  /\ handed' = IF trace THEN r.log ELSE handed

\* reader.read() resolves with a chunk: one pass of the outer while loop.
ReadChunk(s, chunk, trace) ==
  /\ session[s].pc = "read"
  /\ AfterChunk(s, chunk, trace,
                SplitLoop([buffer |-> session[s].buffer \o chunk, d |-> Doc,
                           log |-> IF trace THEN handed ELSE <<>>,
                           threw |-> FALSE],
                          CurrentCrit, s))
  /\ UNCHANGED <<MODE, KESSLER_ABORT, aborted, nStarted, displayVars, loadPc,
                 criteriaVars, maxVisibleObjects>>

\* Mutant: the end of the stream puts the mode back to NORMAL.
ReadDoneLeaves(s) ==
  /\ session[s].pc = "read"
  /\ session' = [session EXCEPT ![s] = Settle("ended", @.buffer)]
  /\ MODE' = "NORMAL"
  /\ UNCHANGED <<KESSLER_ABORT, aborted, nStarted, toggleFailed, displayVars,
                 loadPc, criteriaVars, maxVisibleObjects, traceVars,
                 kesslerEntities, LIVE_ENTITY_BY_ID, normalEntities, sliderValue,
                 sliderMax, counterVisible, counterTotal, filtered, partial>>

\* reader.read() resolves with done: break, "Kessler stream ended".
ReadDone(s) ==
  /\ session[s].pc = "read"
  /\ session' = [session EXCEPT ![s] = Settle("ended", @.buffer)]
  /\ UNCHANGED <<MODE, KESSLER_ABORT, aborted, nStarted, toggleFailed, displayVars,
                 loadPc, criteriaVars, maxVisibleObjects, traceVars,
                 kesslerEntities, LIVE_ENTITY_BY_ID, normalEntities, sliderValue,
                 sliderMax, counterVisible, counterTotal, filtered, partial>>

\* ------------------------------------------------------------------- UI
Flip(set, x) == IF x \in set THEN set \ {x} ELSE set \cup {x}

\* panel "change" on a .f-type box.
ToggleType(t) ==
  /\ checkedTypes' = Flip(checkedTypes, t)
  /\ SetDoc(applyFilters(Doc, Crit(MODE, checkedTypes', checkedCountries,
                                   activeAltBins, maxVisibleObjects)))
  /\ UNCHANGED <<MODE, sessionVars, displayVars, loadPc, checkedCountries,
                 activeAltBins, maxVisibleObjects, traceVars>>

\* panel "change" on a .f-country box.
ToggleCountry(c) ==
  /\ checkedCountries' = Flip(checkedCountries, c)
  /\ SetDoc(applyFilters(Doc, Crit(MODE, checkedTypes, checkedCountries',
                                   activeAltBins, maxVisibleObjects)))
  /\ UNCHANGED <<MODE, sessionVars, displayVars, loadPc, checkedTypes,
                 activeAltBins, maxVisibleObjects, traceVars>>

\* "change" on a check box of the altitude legend.
ToggleAltBin(b) ==
  /\ activeAltBins' = Flip(activeAltBins, b)
  /\ SetDoc(applyFilters(Doc, Crit(MODE, checkedTypes, checkedCountries,
                                   activeAltBins', maxVisibleObjects)))
  /\ UNCHANGED <<MODE, sessionVars, displayVars, loadPc, checkedTypes,
                 checkedCountries, maxVisibleObjects, traceVars>>

\* slider "input": the user drags the slider to v (within its range).
SliderInput(v) ==
  /\ v <= sliderMax
  /\ v # sliderValue
  /\ maxVisibleObjects' = v
  /\ SetDoc(applyFilters([Doc EXCEPT !.sliderValue = v],
                         Crit(MODE, checkedTypes, checkedCountries,
                              activeAltBins, v)))
  /\ UNCHANGED <<MODE, sessionVars, displayVars, loadPc, criteriaVars, traceVars>>

\* ------------------------------------------------------- the typed value
\* A string is a sequence of one-character strings.
DigitChars == <<"0", "1", "2", "3", "4", "5", "6", "7", "8", "9">>
IsDigit(ch) == \E i \in 1..10 : DigitChars[i] = ch
DigitValue(ch) == (CHOOSE i \in 1..10 : DigitChars[i] = ch) - 1

\* input.trim()
RECURSIVE TrimStart(_)
TrimStart(str) ==
  IF str # <<>> /\ Head(str) = " " THEN TrimStart(Tail(str)) ELSE str
RECURSIVE TrimEnd(_)
TrimEnd(str) ==
  IF str # <<>> /\ str[Len(str)] = " "
  THEN TrimEnd(SubSeq(str, 1, Len(str) - 1)) ELSE str
TrimString(str) == TrimEnd(TrimStart(str))

\* The longest prefix of digits of str, read from position i on with the
\* value acc of the n digits read so far.
RECURSIVE ReadDigits(_, _, _, _)
ReadDigits(str, i, acc, n) ==
  IF i <= Len(str) /\ IsDigit(str[i])
  THEN ReadDigits(str, i + 1, 10 * acc + DigitValue(str[i]), n + 1)
  ELSE [v |-> acc, n |-> n]

\* The digits after the sign, if any, signed; NaN when there is none.
SignedDigits(sign, r) == IF r.n = 0 THEN NaN ELSE Num(sign * r.v)

\* Number.parseInt(input, 10): leading white space is skipped, a sign is
\* read, then the longest run of digits.
parseInt(input) ==
  LET str == TrimStart(input)
  IN IF str # <<>> /\ Head(str) \in {"+", "-"}
     THEN SignedDigits(IF Head(str) = "-" THEN -1 ELSE 1,
                       ReadDigits(str, 2, 0, 0))
     ELSE SignedDigits(1, ReadDigits(str, 1, 0, 0))

\* String(value) of an integer.
RECURSIVE NaturalToString(_)
NaturalToString(n) ==
  IF n < 10 THEN <<DigitChars[n + 1]>>
  ELSE Append(NaturalToString(n \div 10), DigitChars[(n % 10) + 1])
NumberToString(v) ==
  IF v < 0 THEN <<"-">> \o NaturalToString(0 - v) ELSE NaturalToString(v)

\* What the user answers to window.prompt: Cancel, or a text.
PromptTexts ==
  { <<>>, <<"0">>, <<"1", "0">>, <<"1", "4", "1", "2", "8">>,
    <<"1", "4", "1", "2", "9">>, <<"-", "1">>, <<"1", ".", "5">>,
    <<" ", "1", " ">>, <<"x">>, <<"0", "1">>, <<"+", "1">>, <<"1", "x">> }
PromptAnswers ==
  {[cancelled |-> TRUE, text |-> <<>>]}
    \cup {[cancelled |-> FALSE, text |-> t] : t \in PromptTexts}

\* Mutant: the typed text is not compared with the parsed integer.
PromptAcceptsPrefix(ans, value) ==
  /\ ~ans.cancelled
  /\ IsFinite(value)
  /\ ~(value.v < 0 \/ value.v > PromptMax)

\* The checks of the dblclick handler: none of its three returns is taken.
PromptAccepts(ans, value) ==
  /\ ~ans.cancelled
  /\ ~(~IsFinite(value) \/ NumberToString(value.v) # TrimString(ans.text))
  /\ ~(value.v < 0 \/ value.v > PromptMax)

\* The accepted value is stored: slider.value = value (the range input
\* clamps it to its max), maxVisibleObjects = value, applyFilters().
StoreTyped(v) ==
  /\ maxVisibleObjects' = v
  /\ SetDoc(applyFilters([Doc EXCEPT !.sliderValue = Min(v, sliderMax)],
                         Crit(MODE, checkedTypes, checkedCountries,
                              activeAltBins, v)))
  /\ UNCHANGED <<MODE, sessionVars, displayVars, loadPc, criteriaVars, traceVars>>

\* What the handler makes of each answer: whether it passes the checks,
\* and the value parsed.
PromptOutcome(ans, value) ==
  [accepted |-> PromptAccepts(ans, value), v |-> value.v]
PromptOutcomes ==
  [ans \in PromptAnswers |-> PromptOutcome(ans, parseInt(ans.text))]

\* slider "dblclick": the prompt is answered with ans.
SliderDblClick(ans) ==
  IF PromptOutcomes[ans].accepted
  THEN StoreTyped(PromptOutcomes[ans].v)
  ELSE UNCHANGED <<vars>>

\* One historical entity, as loadAndRenderTrajectories adds it.
NormalEntity(traj) ==
  Entity(traj.id, normalizeTypeForDev(traj.type_field),
         normalizeCountryForDev(traj.country), altitudeToBin(Num(traj.alt)),
         "CALLBACK", Pos(0), 0, TRUE, 0)

\* window "load": loadAndRenderTrajectories() resolves (ok: the data was
\* fetched and rendered; otherwise the error was caught), then applyFilters().
WindowLoad(ok) ==
  /\ loadPc = "loading"
  /\ loadPc' = "done"
  /\ LET d == IF ok
              THEN [Doc EXCEPT !.n = [i \in 1..Len(Trajectories) |->
                                        NormalEntity(Trajectories[i])]]
              ELSE Doc
     IN SetDoc(applyFilters(d, CurrentCrit))
  /\ UNCHANGED <<MODE, sessionVars, displayVars, criteriaVars,
                 maxVisibleObjects, traceVars>>

\* ------------------------------------------------------------ specifications
Next ==
  \/ nStarted < MaxSessions /\ ClickEnter
  \/ ClickExit
  \/ \E s \in Sessions : FetchOk(s)
  \/ \E s \in Sessions : FetchFail(s)
  \/ \E s \in Sessions, chunk \in LineChunks :
       /\ ReadChunk(s, chunk, FALSE)
       /\ Len(session'[s].buffer) <= MaxBuf
  \/ \E s \in Sessions : ReadDone(s)
  \/ \E t \in ToggleTypes : ToggleType(t)
  \/ \E c \in ToggleCountries : ToggleCountry(c)
  \/ \E b \in ToggleBins : ToggleAltBin(b)
  \/ \E v \in SliderStops : SliderInput(v)
  \/ \E ans \in PromptAnswers : SliderDblClick(ans)
  \/ \E ok \in BOOLEAN : WindowLoad(ok)

Spec == Init /\ [][Next]_vars

\* The byte-level stream: the first live session, traced, fed every token
\* sequence in every chunking, until it ends or the user leaves live mode.
NextStream ==
  \/ nStarted = 0 /\ ClickEnter
  \/ ClickExit
  \/ \E s \in Sessions : FetchOk(s)
  \/ \E s \in Sessions : FetchFail(s)
  \/ \E s \in Sessions, n \in 1..(MaxFed - Len(fed)) :
       \E chunk \in TokenChunks(n) : ReadChunk(s, chunk, TRUE)
  \/ \E s \in Sessions : ReadDone(s)

SpecStream == Init /\ [][NextStream]_vars

\* The filter: one live session at record level, the historical data, and
\* the user working the filter panel, the legend and the slider.
NextFilter ==
  \/ nStarted < MaxFilterSessions /\ ClickEnter
  \/ ClickExit
  \/ \E s \in Sessions : FetchOk(s)
  \/ \E s \in Sessions, f \in FrameIds :
       ReadChunk(s, <<LB, Ob(f), NL>>, FALSE)
  \/ \E t \in FilterTypes : ToggleType(t)
  \/ \E c \in FilterCountries : ToggleCountry(c)
  \/ \E b \in FilterBins : ToggleAltBin(b)
  \/ \E v \in FilterStops : SliderInput(v)
  \/ \E ans \in PromptAnswers : SliderDblClick(ans)
  \/ WindowLoad(TRUE)

SpecFilter == Init /\ [][NextFilter]_vars

\* ===================================================================
\* Properties
\* ===================================================================

\* --------------------------------------------- reference definitions
\* The complete records of a whole stream, decoded in one piece: the tokens
\* between consecutive terminators (an unterminated tail is no record).
RECURSIVE Scan(_, _, _)
Scan(stream, i, cur) ==
  IF i > Len(stream) THEN <<>>
  ELSE IF stream[i] = NL THEN <<cur>> \o Scan(stream, i + 1, <<>>)
  ELSE Scan(stream, i + 1, Append(cur, stream[i]))

RECURSIVE StripLeft(_)
StripLeft(line) ==
  IF line # <<>> /\ Head(line) = SP THEN StripLeft(Tail(line)) ELSE line

RECURSIVE StripRight(_)
StripRight(line) ==
  IF line # <<>> /\ line[Len(line)] = SP
  THEN StripRight(SubSeq(line, 1, Len(line) - 1)) ELSE line

NonEmpty(line) == line # <<>>

\* The lines a stream holds: its records, stripped, the blank ones dropped.
RefLines(stream) ==
  LET recs == Scan(stream, 1, <<>>)
  IN SelectSeq([i \in 1..Len(recs) |-> StripLeft(StripRight(recs[i]))], NonEmpty)

HandedLines == [i \in 1..Len(handed) |-> handed[i].line]

\* The session the trace variables follow.
Traced == nStarted

\* The current mode's collection.
CurrentEntities == IF MODE = "KESSLER" THEN kesslerEntities ELSE normalEntities

\* An object passes the three criteria now in force.
Eligible(e) ==
  /\ \E t \in checkedTypes : TYPE_CODE_MAP(t) = e.type
  /\ \E c \in checkedCountries : COUNTRY_CODE_MAP(c) = e.country
  /\ e.altBin \in activeAltBins

EligibleCount == Cardinality({i \in 1..Len(CurrentEntities) : Eligible(CurrentEntities[i])})
VisibleCount == Cardinality({i \in 1..Len(CurrentEntities) : CurrentEntities[i].show})

\* Eligible objects before position i, in insertion order.
EligibleBefore(i) ==
  Cardinality({j \in 1..(i - 1) : Eligible(CurrentEntities[j])})

\* --------------------------------------------------------------- C1
\* C1: whatever the chunking, the read loop hands every line of the stream
\* fed so far to classification, in order: the lines handed are exactly the
\* lines of the concatenated stream.
C1_AllLinesHanded == HandedLines = RefLines(fed)

\* Unless a line made the loop throw, the lines handed are the lines of the
\* stream, whatever the chunking; after a throw they are a prefix of them.
HandedIsPrefix ==
  LET ref == RefLines(fed)
  IN /\ Len(handed) <= Len(ref)
     /\ HandedLines = SubSeq(ref, 1, Len(handed))
     /\ (\A i \in 1..Len(handed) : handed[i].outcome # "threw")
          => Len(handed) = Len(ref)

\* --------------------------------------------------------------- C2
\* C2: a line that parses as JSON but is neither a status message nor a
\* frame is discarded: the cache is unchanged and the loop goes on (the
\* session is not terminated).
C2_UnrecognizedDiscarded ==
  \A i \in 1..Len(handed) :
    LET msg == JSONParse(handed[i].line)
    IN (msg.ok /\ ~msg.status /\ ~msg.objectsIsArray)
         => /\ handed[i].outcome = "ignored"
            /\ ~handed[i].touched
            /\ session[Traced].pc # "crashed"

\* --------------------------------------------------------------- C3
\* C3: a line that fails to parse is skipped with the cache unmodified, and
\* the loop continues: the next line of the stream is handed to
\* classification and classified by its own shape.
C3_MalformedSkipped ==
  \A i \in 1..Len(handed) :
    ~JSONParse(handed[i].line).ok =>
      /\ handed[i].outcome = "bad"
      /\ ~handed[i].touched
      /\ Len(RefLines(fed)) > i =>
           /\ Len(handed) > i
           /\ handed[i + 1].line = RefLines(fed)[i + 1]
           /\ LET nxt == handed[i + 1]
                  msg == JSONParse(nxt.line)
              IN /\ ~msg.ok => nxt.outcome = "bad"
                 /\ (msg.ok /\ msg.status) => nxt.outcome = "status"
                 /\ (msg.ok /\ ~msg.isNull /\ ~msg.status /\ msg.objectsIsArray)
                      => nxt.outcome = "frame"

\* A malformed line followed by a status line, and a malformed line after a
\* frame has filled the cache, have both been read.
C3_Witness ==
  /\ \E i \in 1..(Len(handed) - 1) :
       /\ ~JSONParse(handed[i].line).ok
       /\ handed[i + 1].outcome = "status"
  /\ session[Traced].pc = "read"

\* --------------------------------------------------------------- C4
\* C4: no read result of a cancelled session is applied to the cache: every
\* cached object was written by the session that is active now, never by a
\* session whose controller has been aborted.
C4_NoStaleWrite ==
  \A i \in 1..Len(kesslerEntities) :
    /\ kesslerEntities[i].writer \notin aborted
    /\ kesslerEntities[i].writer = KESSLER_ABORT

\* After a restart, a frame of the new session has been applied.
C4_Witness ==
  /\ aborted # {}
  /\ KESSLER_ABORT \notin aborted
  /\ kesslerEntities # <<>>
  /\ \A i \in 1..Len(kesslerEntities) : kesslerEntities[i].writer = KESSLER_ABORT

\* --------------------------------------------------------------- C5
\* C5: after applyFilters the number of objects marked visible is
\* min(eligibleCount, capacity).
C5_VisibleIsMin ==
  filtered => VisibleCount = Min(EligibleCount, maxVisibleObjects)

\* The capacity cuts: more objects are eligible than the capacity admits.
C5_Witness ==
  /\ filtered
  /\ maxVisibleObjects > 0
  /\ EligibleCount > maxVisibleObjects
  /\ VisibleCount = maxVisibleObjects

\* --------------------------------------------------------------- C6
\* C6: after applyFilters an object is visible iff it passes all three
\* criteria and fewer than `capacity` eligible objects precede it in
\* insertion order.
C6_VisibleIff ==
  filtered =>
    \A i \in 1..Len(CurrentEntities) :
      CurrentEntities[i].show <=>
        (Eligible(CurrentEntities[i]) /\ EligibleBefore(i) < maxVisibleObjects)

\* An object that fails exactly one criterion is hidden while another is
\* shown, and an eligible object is hidden by the capacity cut.
C6_Witness ==
  /\ filtered
  /\ \E i, j \in 1..Len(CurrentEntities) :
       /\ CurrentEntities[j].show
       /\ ~CurrentEntities[i].show
       /\ \E t \in checkedTypes : TYPE_CODE_MAP(t) = CurrentEntities[i].type
       /\ \E c \in checkedCountries : COUNTRY_CODE_MAP(c) = CurrentEntities[i].country
       /\ CurrentEntities[i].altBin \notin activeAltBins

\* --------------------------------------------------------------- C7
\* C7: applyFilters is stable: run again on its own result with the same
\* criteria and capacity it marks the same objects, and run with any one
\* criterion toggled and then with the criterion toggled back it marks the
\* same objects again.
Refilter(ents, types, countries, bins) ==
  FilterEntities(ents, ActiveTypes(types), ActiveCountries(countries), bins,
                 maxVisibleObjects)

C7_Stable ==
  filtered =>
    /\ Refilter(CurrentEntities, checkedTypes, checkedCountries, activeAltBins)
         = CurrentEntities
    /\ \A t \in TypeCodes :
         Refilter(Refilter(CurrentEntities, Flip(checkedTypes, t),
                           checkedCountries, activeAltBins),
                  checkedTypes, checkedCountries, activeAltBins)
           = CurrentEntities
    /\ \A c \in CountryCodes :
         Refilter(Refilter(CurrentEntities, checkedTypes,
                           Flip(checkedCountries, c), activeAltBins),
                  checkedTypes, checkedCountries, activeAltBins)
           = CurrentEntities
    /\ \A b \in AltBins :
         Refilter(Refilter(CurrentEntities, checkedTypes, checkedCountries,
                           Flip(activeAltBins, b)),
                  checkedTypes, checkedCountries, activeAltBins)
           = CurrentEntities

\* All objects eligible, more of them than the capacity, and only the
\* first ones in insertion order shown.
C7_Witness ==
  /\ filtered
  /\ Len(CurrentEntities) >= 2
  /\ EligibleCount = Len(CurrentEntities)
  /\ maxVisibleObjects = 1
  /\ CurrentEntities[1].show
  /\ \A i \in 2..Len(CurrentEntities) : ~CurrentEntities[i].show

\* --------------------------------------------------------------- C8
\* C8: applying the frame just applied a second time leaves the cache as
\* the first application left it.
FrameLine(f) == <<LB, Ob(f)>>

C8_FrameIdempotent ==
  [][\A s \in Sessions, f \in FrameIds :
       ReadChunk(s, FrameLine(f) \o <<NL>>, FALSE)
         => LET again == ProcessLine(Doc', CurrentCrit', s, FrameLine(f))
            IN /\ again.d.k = kesslerEntities'
               /\ again.d.ids = LIVE_ENTITY_BY_ID']_vars

\* --------------------------------------------------------------- C9
\* C9: the altitude bin stored for an object is the bin of the altitude
\* derived from its stored position, the same on the create path and on
\* the update path.
C9_BinOfPosition ==
  \A i \in 1..Len(kesslerEntities) :
    LET e == kesslerEntities[i]
        carto == CartographicOf(e.cart)
    IN /\ e.altBin = altitudeToBin(CreateHeight(carto))
       /\ e.altBin = altitudeToBin(UpdateHeight(carto))

\* --------------------------------------------------------------- C10
\* C10: after a transport error, and until the user clicks again, the
\* controller is Idle (MODE is NORMAL, the historical display restored, the
\* button not active), the failure has been surfaced exactly once, and the
\* failed call has issued no further request.
C10_TransportErrorIdle ==
  \A s \in Sessions :
    (session[s].pc = "failed" /\ KESSLER_ABORT = s) =>
      /\ MODE = "NORMAL"
      /\ normalShow /\ ~kesslerShow
      /\ ~btnActive
      /\ toggleFailed[s] = 1
      /\ nStarted = s

\* --------------------------------------------------------------- C11
\* The live cache as upsertLiveDotFromBackend takes it.
Live == [ents |-> kesslerEntities, ids |-> LIVE_ENTITY_BY_ID]

\* C11: an object created by a step is not visible unless applyFilters ran
\* in that step: visibility is never assigned at creation.
C11_CreatedHidden ==
  [][\A i \in 1..Len(kesslerEntities') :
       (kesslerEntities'[i].id \notin LIVE_ENTITY_BY_ID /\ ~filtered')
         => ~kesslerEntities'[i].show]_vars

\* --------------------------------------------------------------- C12
\* The elements of a frame the for loop reaches: those before the first
\* element that is no pair.
Reached(objects) ==
  {i \in 1..Len(objects) : \A j \in 1..i : objects[j].wf}

\* C12: after a frame is applied, every object that was already cached and
\* that the frame carries has the position and the velocity of the frame's
\* sample.
C12_UpdateSetsVelocity ==
  [][\A s \in Sessions, f \in FrameIds :
       ReadChunk(s, FrameLine(f) \o <<NL>>, FALSE)
         => \A i \in Reached(FrameTable[f].objects) :
              (i - 1) \in LIVE_ENTITY_BY_ID
                => LET e == kesslerEntities'[IndexOfId(kesslerEntities', i - 1)]
                   IN /\ e.cart = ToCartesian(FrameTable[f].objects[i].pos)
                      /\ e.vel = FrameTable[f].objects[i].vel]_vars

\* --------------------------------------------------------------- C13
\* The for loop of any frame leaves type, country and show of every cached
\* object as they are.
UpsertKeepsKind ==
  \A f \in FrameIds :
    LET u == UpsertFrom(Live, KESSLER_ABORT, FrameTable[f].objects, 1)
    IN \A i \in 1..Len(kesslerEntities) :
         /\ u.live.ents[i].id = kesslerEntities[i].id
         /\ u.live.ents[i].type = kesslerEntities[i].type
         /\ u.live.ents[i].country = kesslerEntities[i].country
         /\ u.live.ents[i].show = kesslerEntities[i].show

\* An object that stays in the cache over a step keeps type and country.
KindPersists ==
  \A i \in 1..Len(kesslerEntities) :
    kesslerEntities[i].id \in LIVE_ENTITY_BY_ID' =>
      LET e == kesslerEntities'[IndexOfId(kesslerEntities', kesslerEntities[i].id)]
      IN /\ e.type = kesslerEntities[i].type
         /\ e.country = kesslerEntities[i].country

\* C13: within a session the type and country of an object never change
\* after its creation, and no upsert writes the show flag of an object that
\* is already cached.
C13_KindImmutable == [](UpsertKeepsKind) /\ [][KindPersists]_vars

\* An object created by one frame, updated by another, and hidden.
C13_Witness ==
  \E i \in 1..Len(kesslerEntities) :
    /\ kesslerEntities[i].vel = 7
    /\ kesslerEntities[i].cart = ToCartesian(Pos(6500))
    /\ ~kesslerEntities[i].show
    /\ filtered

\* --------------------------------------------------------------- C14
\* C14: no step removes an object from the cache, except the clearing of
\* the whole cache when a session starts or the page returns to the
\* historical mode.
C14_CacheNeverShrinks ==
  [][\/ /\ LIVE_ENTITY_BY_ID \subseteq LIVE_ENTITY_BY_ID'
        /\ \A i \in 1..Len(kesslerEntities) :
             IndexOfId(kesslerEntities', kesslerEntities[i].id) # 0
     \/ /\ MODE' # MODE
        /\ LIVE_ENTITY_BY_ID' = {}
        /\ kesslerEntities' = <<>>]_vars

\* A frame of one object was applied after a frame of two: the second
\* object is still cached.
C14_Witness ==
  /\ Len(kesslerEntities) = 2
  /\ kesslerEntities[1].cart = ToCartesian(Pos(7000))
  /\ kesslerEntities[1].vel = 3
  /\ sliderMax = 1

\* --------------------------------------------------------------- C15
\* C15: the cache holds one object per id, and the id index and the live
\* collection hold the same ids.
C15_IndexIsCollection ==
  /\ {kesslerEntities[i].id : i \in 1..Len(kesslerEntities)} = LIVE_ENTITY_BY_ID
  /\ Cardinality(LIVE_ENTITY_BY_ID) = Len(kesslerEntities)

\* Two objects cached in a second session, after the first was cleared.
C15_Witness ==
  /\ nStarted = 2
  /\ Cardinality(LIVE_ENTITY_BY_ID) = 2
  /\ Len(kesslerEntities) = 2

\* --------------------------------------------------------------- C16
\* The tokens of a stream after its last terminator.
RECURSIVE Fragment(_)
Fragment(stream) ==
  IF stream = <<>> \/ stream[Len(stream)] = NL THEN <<>>
  ELSE Append(Fragment(SubSeq(stream, 1, Len(stream) - 1)), stream[Len(stream)])

\* C16: the fragment after the last terminator is never handed to
\* classification: while the loop reads it is the carry-over buffer, and
\* when the stream ends it is dropped.  No line handed holds a terminator,
\* none is empty, and the lines handed are complete records of the stream.
C16_FragmentHeld ==
  /\ \A i \in 1..Len(handed) :
       /\ handed[i].line # <<>>
       /\ \A j \in 1..Len(handed[i].line) : handed[i].line[j] # NL
  /\ Len(handed) <= Len(RefLines(fed))
  /\ HandedLines = SubSeq(RefLines(fed), 1, Len(handed))
  /\ \A s \in Sessions :
       /\ (s = Traced /\ session[s].pc = "read")
            => session[s].buffer = Fragment(fed)
       /\ session[s].pc = "ended" => session[s].buffer = <<>>

\* The stream ended on a fragment, after a blank line and a record.
C16_Witness ==
  /\ nStarted > 0
  /\ session[Traced].pc = "ended"
  /\ Fragment(fed) # <<>>
  /\ Len(handed) = 1
  /\ \E i \in 1..(Len(fed) - 1) : fed[i] = NL /\ fed[i + 1] = NL

\* --------------------------------------------------------------- C17
\* C17: the total shown next to the visible count is the number of objects
\* of the current collection that pass the current criteria.
C17_TotalIsEligible == filtered => counterTotal = EligibleCount

\* --------------------------------------------------------------- C18
\* applyFilters on the current collection and criteria with capacity c.
FilteredAt(c) ==
  FilterEntities(CurrentEntities, ActiveTypes(checkedTypes),
                 ActiveCountries(checkedCountries), activeAltBins, c)

ShownAt(c) == CountShown(FilteredAt(c))

EligibleAt(c) ==
  Cardinality({i \in 1..Len(CurrentEntities) :
                 PassesFilters(FilteredAt(c)[i], ActiveTypes(checkedTypes),
                               ActiveCountries(checkedCountries), activeAltBins)})

Capacities == (0..(Len(CurrentEntities) + 1)) \cup FilterStops

\* C18: for the same collection and criteria, a lower capacity never shows
\* more objects and leaves the number of eligible objects as it is.
C18_CapacityMonotone ==
  \A c1, c2 \in Capacities :
    c1 <= c2 => /\ ShownAt(c1) <= ShownAt(c2)
                /\ EligibleAt(c1) = EligibleAt(c2)

\* The slider was lowered to 1 with two objects eligible: one is shown, a
\* capacity of 2 would show both.
C18_Witness ==
  /\ filtered
  /\ maxVisibleObjects = 1
  /\ VisibleCount = 1
  /\ ShownAt(2) = 2
  /\ EligibleAt(1) = 2

\* --------------------------------------------------------------- C19
\* C19: a line classified as a status message leaves the cache as it is:
\* the same objects, every field of each unchanged.
C19_StatusLeavesCache ==
  \A i \in 1..Len(handed) :
    LET msg == JSONParse(handed[i].line)
    IN /\ (msg.ok /\ msg.status) => handed[i].outcome = "status"
       /\ handed[i].outcome = "status" => ~handed[i].touched

\* A status message was processed after a frame had filled the cache.
C19_Witness ==
  /\ kesslerEntities # <<>>
  /\ \E i \in 2..Len(handed) :
       /\ handed[i].outcome = "status"
       /\ handed[i - 1].outcome = "frame"

\* --------------------------------------------------------------- C20
\* The frames all of whose elements are pairs.
PairFrames == {f \in FrameIds : Reached(FrameTable[f].objects) = 1..Len(FrameTable[f].objects)}

\* A record that carries the objects of frame f, alone or next to a status.
ObjectsRecords(f) == {<<LB, Ob(f)>>, <<LB, StOb(f)>>}

\* C20: every record that carries an objects sequence is reconciled: when
\* the read loop processes it, each of its elements is upserted and the
\* filter is recomputed, whatever other fields the record carries.
C20_ObjectsReconciled ==
  \A s \in Sessions :
    session[s].pc = "read" =>
      \A f \in PairFrames :
        \A rec \in ObjectsRecords(f) :
          LET r == ProcessLine(Doc, CurrentCrit, s, rec)
              u == UpsertFrom(Live, s, FrameTable[f].objects, 1)
          IN /\ r.outcome = "frame"
             /\ r.d.ids = u.live.ids
             /\ \A i \in 1..Len(u.live.ents) :
                  /\ r.d.k[i].id = u.live.ents[i].id
                  /\ r.d.k[i].cart = u.live.ents[i].cart
             /\ r.d.filtered

\* --------------------------------------------------------------- C21
\* C21: while the transport request of a session is pending, and so when
\* its first frame arrives, the cache is empty, MODE is KESSLER and the
\* historical data source is hidden.
C21_ClearedBeforeRequest ==
  \A s \in Sessions :
    session[s].pc = "fetch" =>
      /\ kesslerEntities = <<>>
      /\ LIVE_ENTITY_BY_ID = {}
      /\ MODE = "KESSLER"
      /\ ~normalShow

\* The request of a second session is pending; the first session had
\* cached a frame of two objects.
C21_Witness ==
  /\ nStarted = 2
  /\ session[2].pc = "fetch"
  /\ session[1].pc = "aborted"
  /\ sliderMax = 2

\* --------------------------------------------------------------- C22
\* C22: a session the user stopped while its handshake or a read was in
\* flight has reported no error: it did not take the path a transport
\* error takes.
C22_StopIsNoFailure ==
  \A s \in Sessions : session[s].pc = "aborted" => toggleFailed[s] = 0

\* --------------------------------------------------------------- C23
\* C23: whenever MODE is NORMAL the live cache is empty.
C23_IdleCacheEmpty ==
  MODE = "NORMAL" => (kesslerEntities = <<>> /\ LIVE_ENTITY_BY_ID = {})

\* Back in the historical mode after a session that had cached a frame of
\* two objects and was stopped while reading.
C23_Witness ==
  /\ MODE = "NORMAL"
  /\ nStarted >= 1
  /\ session[1].pc = "aborted"
  /\ sliderMax = 2
  /\ kesslerEntities = <<>>

\* --------------------------------------------------------------- C24
\* C24: applyFilters never runs on a cache to which a frame has been
\* applied in part: when a handler has ended with applyFilters, the cache
\* holds every frame either not at all or whole.
C24_FilterSeesWholeFrames == ~(filtered /\ partial)

\* --------------------------------------------------------------- C25
\* A frame with the zero vector first and an ordinary sample after it.
DegenerateObjects == <<Pair(Pos(0), 0), Pair(Pos(7000), 1)>>

\* C25: the zero vector does not raise: the object gets the bin of the
\* altitude magnitude minus radius, on the create path and on the update
\* path, the objects after it in the frame are upserted, and the read loop
\* goes on (only a frame with an element that is no pair ends it).
C25_DegenerateNoRaise ==
  /\ \A i \in 1..Len(kesslerEntities) :
       kesslerEntities[i].cart = ToCartesian(Pos(0)) =>
         /\ kesslerEntities[i].altBin
              = altitudeToBin(Num(Magnitude(kesslerEntities[i].cart).v - EarthRadiusM))
         /\ kesslerEntities[i].altBin \in AltBins
  /\ \A s \in Sessions :
       session[s].pc = "read" =>
         LET u == UpsertFrom(Live, s, DegenerateObjects, 1)
         IN /\ ~u.threw
            /\ {0, 1} \subseteq u.live.ids
            /\ u.live.ents[IndexOfId(u.live.ents, 0)].altBin
                 = altitudeToBin(Num(0 - EarthRadiusM))
            /\ u.live.ents[IndexOfId(u.live.ents, 1)].cart = ToCartesian(Pos(7000))
  /\ \A s \in Sessions :
       (s = KESSLER_ABORT /\ session[s].pc = "crashed") => partial

\* An object at the zero vector is cached, and the loop has applied another
\* frame after the one that carried it.
C25_Witness ==
  /\ KESSLER_ABORT # 0
  /\ session[KESSLER_ABORT].pc = "read"
  /\ Len(kesslerEntities) = 2
  /\ kesslerEntities[2].cart = ToCartesian(Pos(0))
  /\ kesslerEntities[2].altBin = "0-200"
  /\ sliderMax = 1

\* --------------------------------------------------------------- C26
\* Two collections that differ in show flags at most.
SameButShow(a, b) ==
  /\ Len(a) = Len(b)
  /\ \A i \in 1..Len(a) : [a[i] EXCEPT !.show = b[i].show] = b[i]

C27_FlagsCurrent ==
  Refilter(CurrentEntities, checkedTypes, checkedCountries, activeAltBins)
    = CurrentEntities

\* Unless the for loop of the last frame threw, the flags are current.
FlagsCurrentUnlessPartial == ~partial => C27_FlagsCurrent

\* --------------------------------------------------------------- C28
\* C28: every session that was stopped or replaced has had abort called on
\* its controller and its read loop has terminated; only the current
\* session can be in flight, and no controller is kept while MODE is
\* NORMAL.
C28_AbortSignalled ==
  /\ MODE = "NORMAL" => KESSLER_ABORT = 0
  /\ \A s \in Sessions :
       /\ (s <= nStarted /\ s # KESSLER_ABORT)
            => (s \in aborted /\ session[s].pc \notin {"fetch", "read"})
       /\ session[s].pc \in {"fetch", "read"}
            => (s = KESSLER_ABORT /\ s \notin aborted)

\* The user left live mode while session 1 was reading; a second session is
\* now reading.
C28_Witness ==
  /\ nStarted = 2
  /\ KESSLER_ABORT = 2
  /\ session[2].pc = "read"
  /\ session[1].pc = "aborted"
  /\ aborted = {1}
  /\ kesslerEntities # <<>>

\* --------------------------------------------------------------- C29
\* The altitude (m) the create path derives from a stored position.
AltitudeOf(e) == CreateHeight(CartographicOf(e.cart)).v

\* Session s reads the frame {objects:[[[7000,0,0],[0,7,0]]], object_count:1}
\* on an empty cache with capacity 10 and every criterion accepted.
Scenario(s) ==
  /\ session[s].buffer = <<>>
  /\ kesslerEntities = <<>>
  /\ maxVisibleObjects = 10
  /\ checkedTypes = TypeCodes
  /\ checkedCountries = CountryCodes
  /\ activeAltBins = AltBins
  /\ ReadChunk(s, FrameLine(1) \o <<NL>>, FALSE)

\* What the scenario yields, the altitude apart: one object, id 0, bin
\* "400-800", visible, one object eligible.
ScenarioYield ==
  /\ Len(kesslerEntities') = 1
  /\ LIVE_ENTITY_BY_ID' = {0}
  /\ kesslerEntities'[1].id = 0
  /\ kesslerEntities'[1].altBin = "400-800"
  /\ kesslerEntities'[1].show
  /\ EligibleCount' = 1

\* C29 (amended): the scenario yields one object with id 0, an altitude of
\* 621.863 km, bin "400-800", visible, and an eligible count of 1.
C29_Scenario ==
  [][\A s \in Sessions :
       Scenario(s) => (ScenarioYield /\ AltitudeOf(kesslerEntities'[1]) = 621863)]_vars

\* C29 as stated: the same with an altitude of about 622.8 km (to the
\* decimal given).
C29_ScenarioAsStated ==
  [][\A s \in Sessions :
       Scenario(s) =>
         (ScenarioYield /\ Abs(AltitudeOf(kesslerEntities'[1]) - 622800) <= 50)]_vars

\* The scenario has run.
C29_Witness ==
  /\ MODE = "KESSLER"
  /\ filtered
  /\ maxVisibleObjects = 10
  /\ checkedTypes = TypeCodes /\ checkedCountries = CountryCodes
  /\ activeAltBins = AltBins
  /\ Len(kesslerEntities) = 1
  /\ kesslerEntities[1].vel = 7
  /\ kesslerEntities[1].cart = ToCartesian(Pos(7000))
  /\ kesslerEntities[1].show
  /\ sliderMax = 1

\* --------------------------------------------------------------- C30
\* Reading the record of frame f leaves the ids 0..m-1 cached, m the
\* length of its objects, next to those cached before, with element i
\* stored in object i-1; the ids form an initial segment.
IdIsIndexFor(frames) ==
  \A s \in Sessions, f \in frames :
    (session[s].buffer = <<>> /\ ReadChunk(s, FrameLine(f) \o <<NL>>, FALSE))
      => /\ LIVE_ENTITY_BY_ID'
              = LIVE_ENTITY_BY_ID \cup (0..(Len(FrameTable[f].objects) - 1))
         /\ LIVE_ENTITY_BY_ID' = 0..(Cardinality(LIVE_ENTITY_BY_ID') - 1)
         /\ \A i \in 1..Len(FrameTable[f].objects) :
              FrameTable[f].objects[i].wf =>
                kesslerEntities'[IndexOfId(kesslerEntities', i - 1)].cart
                  = ToCartesian(FrameTable[f].objects[i].pos)

\* C30: the id of an object is its index in the frame: after each frame
\* the cached ids are 0..m-1, m the largest objects length so far, and
\* element i of the frame is stored in the object with id i.
C30_IdIsIndex == [][IdIsIndexFor(FrameIds)]_vars

\* For the frames all of whose elements are pairs, the id is the index.
IdIsIndexOfPairFrames == [][IdIsIndexFor(PairFrames)]_vars
\* --------------------------------------------------------------- C31
\* C31: whenever control returns to the event loop, the number of objects
\* of the current collection that are marked visible does not exceed
\* maxVisibleObjects.
C31_CapacityIsBudget == VisibleCount <= maxVisibleObjects

\* The budget is kept in every state that does not follow a frame whose
\* for loop threw.
BudgetUnlessPartial == ~partial => VisibleCount <= maxVisibleObjects

\* --------------------------------------------------------------- C32
\* The cache and the visible flags of d are those of the current page.
SameCache(d) ==
  /\ d.ids = LIVE_ENTITY_BY_ID
  /\ d.k = kesslerEntities

\* C32: a frame is applied atomically with respect to failures: reading a
\* frame record either upserts all its objects and recomputes the filter,
\* or leaves the cache and the visible flags as they were.
C32_FrameAtomic ==
  \A s \in Sessions : session[s].pc = "read" =>
    \A f \in FrameIds :
      \/ ProcessLine(Doc, CurrentCrit, s, FrameLine(f)).outcome = "frame"
      \/ SameCache(ProcessLine(Doc, CurrentCrit, s, FrameLine(f)).d)

\* Frames all of whose elements are pairs are applied whole.
PairFramesAtomic ==
  \A s \in Sessions : session[s].pc = "read" =>
    \A f \in PairFrames :
      ProcessLine(Doc, CurrentCrit, s, FrameLine(f)).outcome = "frame"

\* --------------------------------------------------------------- C33
\* C33: in the counter "Visible: v / t", v never exceeds t.
C33_VisibleAtMostTotal == counterVisible <= counterTotal

\* --------------------------------------------------------------- C34
\* The stream of the current session has ended.
EndedCurrent(s) == session[s].pc = "ended" /\ KESSLER_ABORT = s

\* The step on which the reader reports done changes neither the mode, the
\* cache nor the display.
EndStep ==
  \A s \in Sessions :
    (session[s].pc = "read" /\ session'[s].pc = "ended") =>
      UNCHANGED <<MODE, KESSLER_ABORT, kesslerEntities, LIVE_ENTITY_BY_ID,
                  displayVars>>

\* After the end the cached objects stay, and live mode is left only by
\* the exit, which leaves the controller Idle and reports no failure.
AfterEndStep ==
  \A s \in Sessions :
    EndedCurrent(s) =>
      \/ /\ UNCHANGED <<MODE, KESSLER_ABORT, LIVE_ENTITY_BY_ID, displayVars>>
         /\ Len(kesslerEntities') = Len(kesslerEntities)
      \/ /\ MODE' = "NORMAL" /\ KESSLER_ABORT' = 0
         /\ kesslerEntities' = <<>> /\ LIVE_ENTITY_BY_ID' = {}
         /\ normalShow' /\ ~kesslerShow' /\ ~btnActive'
         /\ toggleFailed' = toggleFailed

\* C34: when the reader reports done the controller stays in live mode:
\* MODE stays KESSLER, the cache keeps its objects and the historical
\* display stays hidden until an explicit exit, which returns to Idle.
C34_EndKeepsLive ==
  /\ [](\A s \in Sessions :
          EndedCurrent(s) => (MODE = "KESSLER" /\ ~normalShow /\ kesslerShow))
  /\ [][EndStep /\ AfterEndStep]_vars

\* A stream that delivered a frame of two objects ended, and the user then
\* left live mode.
C34_Witness ==
  /\ session[1].pc = "ended"
  /\ MODE = "NORMAL"
  /\ KESSLER_ABORT = 0
  /\ aborted = {1}
  /\ toggleFailed[1] = 0
  /\ sliderMax = 2
  /\ kesslerEntities = <<>>

\* --------------------------------------------------------------- C35
\* C35: the live data source is shown, the historical one hidden, the time
\* controls hidden and the simulation info box shown if and only if MODE
\* is KESSLER.
C35_DisplayMatchesMode ==
  /\ kesslerShow <=> MODE = "KESSLER"
  /\ normalShow <=> MODE # "KESSLER"
  /\ timeUIShown <=> MODE # "KESSLER"
  /\ infoBoxShown <=> MODE = "KESSLER"

\* Back in live mode after a first session was left.
C35_Witness ==
  /\ nStarted = 2
  /\ MODE = "KESSLER"
  /\ session[1].pc = "aborted"
  /\ kesslerShow /\ ~normalShow /\ ~timeUIShown /\ infoBoxShown
  /\ kesslerEntities # <<>>

\* --------------------------------------------------------------- C36
\* A session is started only by a click in NORMAL mode, which enters live
\* mode; the click that leaves live mode starts none.
StartStep ==
  /\ nStarted' # nStarted =>
       (MODE = "NORMAL" /\ MODE' = "KESSLER" /\ nStarted' = nStarted + 1)
  /\ (MODE = "KESSLER" /\ MODE' = "NORMAL") => nStarted' = nStarted

LiveFiltered(types, countries) ==
  applyFilters(Doc, Crit("KESSLER", types, countries, activeAltBins,
                         maxVisibleObjects)).k

NoneShown(ents) == \A i \in 1..Len(ents) : ~ents[i].show

\* C37: every object created by the live stream has kind Junk and origin
\* Other; in live mode an object is eligible only if the Junk type and the
\* Other country are both active, and deactivating either makes every live
\* object not visible.
C37_LiveIsJunkOther ==
  /\ \A i \in 1..Len(kesslerEntities) :
       /\ kesslerEntities[i].type = "Junk"
       /\ kesslerEntities[i].country = "Other"
       /\ (MODE = "KESSLER" /\ Eligible(kesslerEntities[i])) =>
            /\ "Junk" \in ActiveTypes(checkedTypes)
            /\ "Other" \in ActiveCountries(checkedCountries)
  /\ MODE = "KESSLER" =>
       /\ \A t \in checkedTypes :
            TYPE_CODE_MAP(t) = "Junk" =>
              NoneShown(LiveFiltered(Flip(checkedTypes, t), checkedCountries))
       /\ \A c \in checkedCountries :
            COUNTRY_CODE_MAP(c) = "Other" =>
              NoneShown(LiveFiltered(checkedTypes, Flip(checkedCountries, c)))

\* While Junk or Other is inactive no live object is visible, in every
\* state that does not follow a frame whose for loop threw.
HiddenWhileInactive ==
  (/\ MODE = "KESSLER"
   /\ ~partial
   /\ \/ "Junk" \notin ActiveTypes(checkedTypes)
      \/ "Other" \notin ActiveCountries(checkedCountries))
    => NoneShown(kesslerEntities)

\* The Rocket-Body/Debris box was unchecked while two live objects were
\* cached: none is visible.
C37_Witness ==
  /\ MODE = "KESSLER"
  /\ filtered
  /\ Len(kesslerEntities) = 2
  /\ "R/B" \notin checkedTypes
  /\ "Other" \in checkedCountries
  /\ activeAltBins = AltBins
  /\ NoneShown(kesslerEntities)

\* --------------------------------------------------------------- C38
\* The number a string of digits denotes.
RECURSIVE DecimalValue(_)
DecimalValue(t) ==
  IF t = <<>> THEN 0
  ELSE 10 * DecimalValue(SubSeq(t, 1, Len(t) - 1)) + DigitValue(t[Len(t)])

\* The text, white space around it apart, is the plain decimal of an
\* integer: digits only, no sign, no leading zero.
CleanInteger(text) ==
  LET t == TrimString(text)
  IN /\ t # <<>>
     /\ \A i \in 1..Len(t) : IsDigit(t[i])
     /\ (Len(t) = 1 \/ t[1] # "0")

\* The answer is a clean integer in [0, 14128].
ValidAnswer(ans) ==
  /\ ~ans.cancelled
  /\ CleanInteger(ans.text)
  /\ DecimalValue(TrimString(ans.text)) \in 0..14128

ValidAnswers == {ans \in PromptAnswers : ValidAnswer(ans)}
TypedValue == [ans \in ValidAnswers |-> DecimalValue(TrimString(ans.text))]

\* The prompt accepts the valid answers only, with the value they denote.
PromptAcceptsValidOnly ==
  \A ans \in PromptAnswers :
    /\ PromptOutcomes[ans].accepted <=> ans \in ValidAnswers
    /\ ans \in ValidAnswers => PromptOutcomes[ans].v = TypedValue[ans]

\* A step of the dblclick handler stores a valid answer and refilters, and
\* changes nothing on any other answer.
PromptStep ==
  \A ans \in PromptAnswers :
    SliderDblClick(ans) =>
      IF ans \in ValidAnswers
      THEN /\ maxVisibleObjects' = TypedValue[ans]
           /\ filtered'
      ELSE /\ UNCHANGED <<maxVisibleObjects, sliderValue, filtered>>
           /\ \A i \in 1..Len(CurrentEntities) :
                CurrentEntities'[i].show = CurrentEntities[i].show

\* C38: the capacity is always a non-negative integer; the typed-value
\* prompt accepts only a clean integer in [0, 14128], and a cancelled,
\* non-integer or out-of-range answer leaves maxVisibleObjects, the slider
\* value and the visible flags unchanged and does not recompute the filter.
C38_PromptValidates ==
  /\ [](maxVisibleObjects \in Nat /\ PromptAcceptsValidOnly)
  /\ [][PromptStep]_vars

\* A typed 10 was accepted while the slider's range ends at 1.
C38_Witness ==
  /\ MODE = "KESSLER"
  /\ maxVisibleObjects = 10
  /\ sliderMax = 1
  /\ sliderValue = 1
  /\ filtered

====
